---- MODULE Spec2Model ----
(***************************************************************************)
(* Model of the EcsNextjsInfraStack constructor                            *)
(* (ecs-nextjs-infra/lib/ecs-nextjs-infra-stack.ts).                       *)
(*                                                                         *)
(* The constructor is one straight-line chain of construct creations.     *)
(* Every statement of the chain is one action; `pc` is the position in     *)
(* the constructor, `self` is the stack object under construction (`this`) *)
(* and `built` is the sequence of stack objects that `new` has returned.   *)
(* The constructs come from aws-cdk-lib, which is not part of the          *)
(* repository: a call into it either returns or throws, and the            *)
(* constructor has no try/catch, so a throw leaves the constructor.        *)
(***************************************************************************)
EXTENDS Integers, Sequences, FiniteSets, TLC

VARIABLES pc, self, built, calls

\* The Home page (ecs-nextjs-app/src/app/page.tsx): the two useState cells,
\* the position of the promise chain started by the effect, the values the
\* chain carries, the console and the router.
VARIABLES apiParam, staticData, fetchPc, response, data, error,
          consoleErrors, router

infra == <<pc, self, built, calls>>

home == <<apiParam, staticData, fetchPc, response, data, error,
          consoleErrors, router>>

vars == <<pc, self, built, calls, apiParam, staticData, fetchPc, response,
          data, error, consoleErrors, router>>

\* Number of `new EcsNextjsInfraStack(...)` invocations explored.
MaxBuilds == 2

\* Arguments of the constructor: (scope, id, props?).
StackIds == {"EcsNextjsInfraStack", "EcsNextjsInfraStackB"}

StackPropsSet == {[env |-> "undefined"], [env |-> "ap-southeast-1"]}

\* The value of `self` while no constructor call has allocated an object.
NoStack == [id |-> "none", props |-> [env |-> "undefined"], children |-> <<>>]

\* The statements of the constructor body, in source order.
StatementsSwapped ==
    <<"super", "cluster", "vpc", "bucket", "role", "managedPolicy",
      "inlinePolicy", "taskDef", "container", "portMappings", "service",
      "return">>

Statements ==
    <<"super", "vpc", "cluster", "bucket", "role", "managedPolicy",
      "inlinePolicy", "taskDef", "container", "portMappings", "service",
      "return">>

\* The statement that follows statement p in the constructor body.
After(p) ==
    LET i == CHOOSE k \in 1..Len(Statements) : Statements[k] = p
    IN  Statements[i + 1]

\* this.node children after `new X(this, id, ...)` registered construct c.
AddChild(stack, cid, c) ==
    [stack EXCEPT !.children = (cid :> c) @@ stack.children]

\* The action list of the inline policy statement (an action is
\* "<service>:<name>").
ExtraActions ==
    { [service |-> "ecr",  name |-> "GetAuthorizationToken"],
      [service |-> "ecr",  name |-> "BatchCheckLayerAvailability"],
      [service |-> "ecr",  name |-> "DescribeRepositories"],
      [service |-> "ecr",  name |-> "GetDownloadUrlForLayer"],
      [service |-> "logs", name |-> "CreateLogStream"],
      [service |-> "logs", name |-> "PutLogEvents"],
      [service |-> "s3",   name |-> "GetObject"],
      [service |-> "s3",   name |-> "ListBucket"] }

\* assetsBucket.bucketArn: a token that names the bucket of this stack.
BucketArn(stack) == stack.children["AssetsBucket"].bucketArn

\* `${assetsBucket.bucketArn}/*`
ObjectsArn(stack) == Append(BucketArn(stack), "/*")

\* new iam.PolicyStatement({actions: [...], resources: [...]})
PolicyStatementUnscoped(stack) ==
    [actions   |-> ExtraActions,
     resources |-> {BucketArn(stack)}]

PolicyStatementWithWrite(stack) ==
    [actions   |-> ExtraActions \cup {[service |-> "s3", name |-> "PutObject"]},
     resources |-> {BucketArn(stack), ObjectsArn(stack)}]

PolicyStatement(stack) ==
    [actions   |-> ExtraActions,
     resources |-> {BucketArn(stack), ObjectsArn(stack)}]

\* Number of router.push calls explored.
MaxPushes == 1

\* JSON values as the page sees them: null, or an object whose title and
\* description may be absent ("undefined").
Null == [t |-> "null", title |-> "undefined", description |-> "undefined"]

\* Bodies a response can carry: the data.json document, an object without the
\* two keys, the JSON literal null, and a body that is not JSON.
Bodies == {"data.json", "{}", "null", "<Error>AccessDenied</Error>"}

\* response.json(): the parsed value, or a rejection for a body that is not
\* JSON.
ParseJson(body) ==
    CASE body = "data.json" ->
            [ok |-> TRUE,
             value |-> [t |-> "object", title |-> "NextJS on ECS",
                        description |-> "Static data from S3"]]
      [] body = "{}" ->
            [ok |-> TRUE,
             value |-> [t |-> "object", title |-> "undefined",
                        description |-> "undefined"]]
      [] body = "null" -> [ok |-> TRUE, value |-> Null]
      [] OTHER -> [ok |-> FALSE, value |-> Null]

\* The responses the fetch can resolve with.
Responses == [status : {200, 403, 404}, body : Bodies]

\* The value of `response` while the fetch has not resolved.
NoResponse == [status |-> 0, body |-> "none"]

\* response.ok
ResponseOk(r) == r.status >= 200 /\ r.status <= 299

\* Texts typed into the input, as character sequences.
Inputs == {<<>>, <<" ">>, <<"a">>, <<" ", "a", " ">>}

\* apiParam.trim()
RECURSIVE Trim(_)
Trim(str) ==
    IF str = <<>> THEN <<>>
    ELSE IF Head(str) = " " THEN Trim(Tail(str))
    ELSE IF str[Len(str)] = " " THEN Trim(SubSeq(str, 1, Len(str) - 1))
    ELSE str

\* encodeURIComponent(apiParam)
RECURSIVE EncodeURIComponent(_)
EncodeURIComponent(str) ==
    IF str = <<>> THEN <<>>
    ELSE (IF Head(str) = " " THEN <<"%20">> ELSE <<Head(str)>>)
            \o EncodeURIComponent(Tail(str))

\* {staticData?.title || 'Loading....'}
RenderedTitle(sd) ==
    IF sd.t = "null" \/ sd.title \in {"undefined", ""}
    THEN "Loading...." ELSE sd.title

\* {staticData?.description || 'Fetching static data....'}
RenderedDescription(sd) ==
    IF sd.t = "null" \/ sd.description \in {"undefined", ""}
    THEN "Fetching static data...." ELSE sd.description

TypeOK ==
    /\ fetchPc \in {"unmounted", "pending", "then1", "parsing", "then2",
                    "catch", "settled"}
    /\ apiParam \in Inputs
    /\ Len(router) <= MaxPushes + 1
    /\ Len(consoleErrors) <= 1
    /\ pc \in {"idle", "threw"} \cup {Statements[i] : i \in 1..Len(Statements)}
    /\ calls \in 0..(MaxBuilds + 1)
    /\ Len(built) <= calls

Init ==
    /\ pc = "idle"
    /\ self = NoStack
    /\ built = <<>>
    /\ calls = 0
    /\ apiParam = <<>>
    /\ staticData = Null
    /\ fetchPc = "unmounted"
    /\ response = NoResponse
    /\ data = Null
    /\ error = <<>>
    /\ consoleErrors = <<>>
    /\ router = <<>>

\* new EcsNextjsInfraStack(scope, id, props): allocates `this` and enters
\* the constructor.
Construct ==
    /\ pc \in {"idle", "threw"}
    /\ calls < MaxBuilds
    /\ \E id \in StackIds, props \in StackPropsSet :
          self' = [id |-> id, props |-> props, children |-> <<>>]
    /\ pc' = Statements[1]
    /\ calls' = calls + 1
    /\ UNCHANGED built
    /\ UNCHANGED home

\* super(scope, id, props);
Super ==
    /\ pc = "super"
    /\ pc' = After(pc)
    /\ UNCHANGED <<self, built, calls>>
    /\ UNCHANGED home

\* const vpc = new ec2.Vpc(this, 'NextJsVpc', { maxAzs: 2 });
NewVpc ==
    /\ pc = "vpc"
    /\ self' = AddChild(self, "NextJsVpc", [type |-> "Vpc", maxAzs |-> 2])
    /\ pc' = After(pc)
    /\ UNCHANGED <<built, calls>>
    /\ UNCHANGED home

\* const cluster = new ecs.Cluster(this, 'EcsNextJsCluster', { vpc });
NewCluster ==
    /\ pc = "cluster"
    /\ self' = AddChild(self, "EcsNextJsCluster",
                        [type |-> "Cluster", vpc |-> "NextJsVpc"])
    /\ pc' = After(pc)
    /\ UNCHANGED <<built, calls>>
    /\ UNCHANGED home

\* const assetsBucket = new s3.Bucket(this, 'AssetsBucket', {...});
NewBucket ==
    /\ pc = "bucket"
    /\ self' = AddChild(self, "AssetsBucket",
                        [type              |-> "Bucket",
                         versioned         |-> TRUE,
                         publicReadAccess  |-> TRUE,
                         removalPolicy     |-> "DESTROY",
                         autoDeleteObjects |-> TRUE,
                         blockPublicAccess |-> "BLOCK_ACLS",
                         bucketArn         |-> <<"arn:aws:s3:::", self.id, "AssetsBucket">>])
    /\ pc' = After(pc)
    /\ UNCHANGED <<built, calls>>
    /\ UNCHANGED home

\* const executionRole = new iam.Role(this, 'EcsTaskExecutionRole', {...});
NewRole ==
    /\ pc = "role"
    /\ self' = AddChild(self, "EcsTaskExecutionRole",
                        [type            |-> "Role",
                         assumedBy       |-> "ecs-tasks.amazonaws.com",
                         managedPolicies |-> {},
                         statements      |-> <<>>])
    /\ pc' = After(pc)
    /\ UNCHANGED <<built, calls>>
    /\ UNCHANGED home

\* executionRole.addManagedPolicy(fromAwsManagedPolicyName(...));
AddManagedPolicy ==
    /\ pc = "managedPolicy"
    /\ self' = [self EXCEPT !.children["EcsTaskExecutionRole"].managedPolicies =
                   @ \cup {"service-role/AmazonECSTaskExecutionRolePolicy"}]
    /\ pc' = After(pc)
    /\ UNCHANGED <<built, calls>>
    /\ UNCHANGED home

\* executionRole.addToPolicy(new iam.PolicyStatement({...}));
AddToPolicySplit ==
    /\ pc = "inlinePolicy"
    /\ self' = [self EXCEPT !.children["EcsTaskExecutionRole"].statements =
                   @ \o << [PolicyStatement(self) EXCEPT
                               !.actions = {a \in @ : a.service # "s3"}],
                           [PolicyStatement(self) EXCEPT
                               !.actions = {a \in @ : a.service = "s3"}] >>]
    /\ pc' = After(pc)
    /\ UNCHANGED <<built, calls>>
    /\ UNCHANGED home

AddToPolicy ==
    /\ pc = "inlinePolicy"
    /\ self' = [self EXCEPT !.children["EcsTaskExecutionRole"].statements =
                   Append(@, PolicyStatement(self))]
    /\ pc' = After(pc)
    /\ UNCHANGED <<built, calls>>
    /\ UNCHANGED home

\* const taskDefinition = new ecs.FargateTaskDefinition(this, ..., {...});
NewTaskDefinition ==
    /\ pc = "taskDef"
    /\ self' = AddChild(self, "EcsNextJsTaskDef",
                        [type           |-> "FargateTaskDefinition",
                         cpu            |-> 512,
                         memoryLimitMiB |-> 1024,
                         executionRole  |-> "EcsTaskExecutionRole",
                         containers     |-> <<>>])
    /\ pc' = After(pc)
    /\ UNCHANGED <<built, calls>>
    /\ UNCHANGED home

\* const container = taskDefinition.addContainer('EcsNextJsContainer', {...});
AddContainer ==
    /\ pc = "container"
    /\ self' = [self EXCEPT !.children["EcsNextJsTaskDef"].containers =
                   Append(@, [id           |-> "EcsNextJsContainer",
                              image        |-> "<container-image-uri>",
                              streamPrefix |-> "EcsNextJs",
                              portMappings |-> <<>>])]
    /\ pc' = After(pc)
    /\ UNCHANGED <<built, calls>>
    /\ UNCHANGED home

\* container.addPortMappings({ containerPort: 3000 });
AddPortMappings ==
    /\ pc = "portMappings"
    /\ self' = [self EXCEPT !.children["EcsNextJsTaskDef"].containers[1].portMappings =
                   Append(@, [containerPort |-> 3000])]
    /\ pc' = After(pc)
    /\ UNCHANGED <<built, calls>>
    /\ UNCHANGED home

\* new ecsPatterns.ApplicationLoadBalancedFargateService(this, ..., {...});
NewServiceShared ==
    /\ pc = "service"
    /\ self' = AddChild(self, "EcsNextJsService",
                        [type           |-> "ApplicationLoadBalancedFargateService",
                         cluster        |-> "EcsNextJsCluster",
                         taskDefinition |-> "EcsNextJsTaskDef",
                         desiredCount   |-> 2 + Len(built)])
    /\ pc' = After(pc)
    /\ UNCHANGED <<built, calls>>
    /\ UNCHANGED home

NewServiceDirect ==
    /\ pc = "service"
    /\ self' = AddChild(self, "EcsNextJsService",
                        [type           |-> "FargateService",
                         cluster        |-> "EcsNextJsCluster",
                         taskDefinition |-> "EcsNextJsTaskDef",
                         desiredCount   |-> 2])
    /\ pc' = After(pc)
    /\ UNCHANGED <<built, calls>>
    /\ UNCHANGED home

NewService ==
    /\ pc = "service"
    /\ self' = AddChild(self, "EcsNextJsService",
                        [type           |-> "ApplicationLoadBalancedFargateService",
                         cluster        |-> "EcsNextJsCluster",
                         taskDefinition |-> "EcsNextJsTaskDef",
                         desiredCount   |-> 2])
    /\ pc' = After(pc)
    /\ UNCHANGED <<built, calls>>
    /\ UNCHANGED home

\* End of the constructor body: `new` yields the stack object.
Return ==
    /\ pc = "return"
    /\ built' = Append(built, self)
    /\ pc' = "idle"
    /\ UNCHANGED <<self, calls>>
    /\ UNCHANGED home

\* A call into the library throws; nothing in the constructor catches it, so
\* control leaves the constructor and `new` yields no object.
ThrowReported ==
    /\ pc \notin {"idle", "threw", "return"}
    /\ pc' = "threw"
    /\ built' = Append(built, self)
    /\ UNCHANGED <<self, calls>>
    /\ UNCHANGED home

Throw ==
    /\ pc \notin {"idle", "threw", "return"}
    /\ pc' = "threw"
    /\ UNCHANGED <<self, built, calls>>
    /\ UNCHANGED home

Next ==
    \/ Construct
    \/ Super
    \/ NewVpc
    \/ NewCluster
    \/ NewBucket
    \/ NewRole
    \/ AddManagedPolicy
    \/ AddToPolicy
    \/ NewTaskDefinition
    \/ AddContainer
    \/ AddPortMappings
    \/ NewService
    \/ Return
    \/ Throw

Spec == Init /\ [][Next]_vars

(***************************************************************************)
(* The Home page                                                           *)
(***************************************************************************)

\* First render and the effect: useState('') and useState(null), then
\* fetch(`${bucketUrl}/static/data.json`) is issued.
Mount ==
    /\ fetchPc = "unmounted"
    /\ apiParam' = <<>>
    /\ staticData' = Null
    /\ fetchPc' = "pending"
    /\ UNCHANGED <<response, data, error, consoleErrors, router>>
    /\ UNCHANGED infra

\* The fetch promise resolves with a response.
FetchResolve ==
    /\ fetchPc = "pending"
    /\ \E r \in Responses : response' = r
    /\ fetchPc' = "then1"
    /\ UNCHANGED <<apiParam, staticData, data, error, consoleErrors, router>>
    /\ UNCHANGED infra

\* The fetch promise rejects (network error).
FetchReject ==
    /\ fetchPc = "pending"
    /\ error' = <<"TypeError: Failed to fetch">>
    /\ fetchPc' = "catch"
    /\ UNCHANGED <<apiParam, staticData, response, data, consoleErrors, router>>
    /\ UNCHANGED infra

\* .then((response) => { if (!response.ok) throw ...; return response.json(); })
ThenCheckOkUnchecked ==
    /\ fetchPc = "then1"
    /\ fetchPc' = "parsing"
    /\ UNCHANGED <<apiParam, staticData, response, data, error, consoleErrors,
                   router>>
    /\ UNCHANGED infra

ThenCheckOk ==
    /\ fetchPc = "then1"
    /\ IF ~ResponseOk(response)
       THEN /\ error' = <<"HTTP error! Status: ", response.status>>
            /\ fetchPc' = "catch"
       ELSE /\ fetchPc' = "parsing"
            /\ UNCHANGED error
    /\ UNCHANGED <<apiParam, staticData, response, data, consoleErrors, router>>
    /\ UNCHANGED infra

\* The promise of response.json() settles: the parsed value, or a rejection.
JsonSettle ==
    /\ fetchPc = "parsing"
    /\ IF ParseJson(response.body).ok
       THEN /\ data' = ParseJson(response.body).value
            /\ fetchPc' = "then2"
            /\ UNCHANGED error
       ELSE /\ error' = <<"SyntaxError">>
            /\ fetchPc' = "catch"
            /\ UNCHANGED data
    /\ UNCHANGED <<apiParam, staticData, response, consoleErrors, router>>
    /\ UNCHANGED infra

\* .then((data) => setStaticData(data))
ThenSetStaticData ==
    /\ fetchPc = "then2"
    /\ staticData' = data
    /\ fetchPc' = "settled"
    /\ UNCHANGED <<apiParam, response, data, error, consoleErrors, router>>
    /\ UNCHANGED infra

\* .catch((error) => console.error('Error fetching static data:', error))
CatchLog ==
    /\ fetchPc = "catch"
    /\ consoleErrors' = Append(consoleErrors,
                               <<"Error fetching static data:", error>>)
    /\ fetchPc' = "settled"
    /\ UNCHANGED <<apiParam, staticData, response, data, error, router>>
    /\ UNCHANGED infra

\* onChange={(e) => setApiParam(e.target.value)}
SetApiParam ==
    /\ fetchPc # "unmounted"
    /\ \E v \in Inputs : apiParam' = v
    /\ UNCHANGED <<staticData, fetchPc, response, data, error, consoleErrors,
                   router>>
    /\ UNCHANGED infra

\* handleRedirect: pushes the API route when the trimmed input is not empty.
HandleRedirect ==
    /\ fetchPc # "unmounted"
    /\ Len(router) < MaxPushes
    /\ IF Trim(apiParam) # <<>>
       THEN router' = Append(router,
                             <<"/api/hello?name=">> \o EncodeURIComponent(apiParam))
       ELSE UNCHANGED router
    /\ UNCHANGED <<apiParam, staticData, fetchPc, response, data, error,
                   consoleErrors>>
    /\ UNCHANGED infra

HomeNext ==
    \/ Mount
    \/ FetchResolve
    \/ FetchReject
    \/ ThenCheckOk
    \/ JsonSettle
    \/ ThenSetStaticData
    \/ CatchLog
    \/ SetApiParam
    \/ HandleRedirect

SpecHome == Init /\ [][HomeNext]_vars

(***************************************************************************)
(* Properties                                                              *)
(***************************************************************************)

\* Every stack object that exists: the ones `new` returned and `this`.
AllStacks == {built[i] : i \in 1..Len(built)} \cup {self}

\* The inline statements of the execution role of stack s (none before the
\* role exists).
InlineStatements(s) ==
    IF "EcsTaskExecutionRole" \in DOMAIN s.children
    THEN LET st == s.children["EcsTaskExecutionRole"].statements
         IN  {st[k] : k \in 1..Len(st)}
    ELSE {}

\* C1: for every role, no inline statement grants an action outside the
\* actions passed for it (the managed baseline is attached by name and adds
\* no inline action), and the only storage (s3) actions granted are the
\* read/list actions s3:GetObject and s3:ListBucket, never a write or delete.
C1_OnlyReadListStorageActions ==
    \A s \in AllStacks : \A st \in InlineStatements(s) :
        /\ st.actions \subseteq ExtraActions
        /\ \A a \in st.actions :
              a.service = "s3" => a.name \in {"GetObject", "ListBucket"}

C1_Witness ==
    \E i \in 1..Len(built) : \E st \in InlineStatements(built[i]) :
        \E a \in st.actions : a.service = "s3"

\* C3: given the concrete resource list, the statement is added and its
\* resource set is exactly the asset store's identifier and its
\* wildcard-object identifier: nothing added, nothing removed.
C3_ResourcesEqualScopes ==
    /\ \A s \in AllStacks : \A st \in InlineStatements(s) :
          LET arn == s.children["AssetsBucket"].bucketArn
          IN  /\ arn[2] = s.id
              /\ st.resources = {arn, arn \o <<"/*">>}
    /\ \A i \in 1..Len(built) : InlineStatements(built[i]) # {}
    /\ pc \in {"taskDef", "container", "portMappings", "service", "return"}
          => InlineStatements(self) # {}

C3_Witness ==
    /\ pc = "taskDef"
    /\ \E st \in InlineStatements(self) : Cardinality(st.resources) = 2

\* C8: two builds with identical inputs yield structurally equal
\* declarations; an earlier build leaves nothing that changes a later one.
C8_Idempotent ==
    \A i, j \in 1..Len(built) :
        (built[i].id = built[j].id /\ built[i].props = built[j].props)
            => built[i].children = built[j].children

C8_Witness ==
    \E i, j \in 1..Len(built) :
        /\ i # j
        /\ built[i].id = built[j].id
        /\ built[i].props = built[j].props

\* A declaration in which every statement of the chain has taken effect.
Complete(s) ==
    /\ DOMAIN s.children =
          {"NextJsVpc", "EcsNextJsCluster", "AssetsBucket",
           "EcsTaskExecutionRole", "EcsNextJsTaskDef", "EcsNextJsService"}
    /\ s.children["EcsTaskExecutionRole"].managedPolicies # {}
    /\ Len(s.children["EcsTaskExecutionRole"].statements) >= 1
    /\ Len(s.children["EcsNextJsTaskDef"].containers) = 1
    /\ Len(s.children["EcsNextJsTaskDef"].containers[1].portMappings) = 1

\* C9: the build is all-or-nothing: when a step of the chain raises, the
\* build aborts, and no partially built declaration is ever among the
\* results.
C9_AllOrNothing ==
    /\ \A i \in 1..Len(built) : Complete(built[i])
    /\ pc = "threw" => ~Complete(self)

C9_Witness ==
    /\ pc = "threw"
    /\ "AssetsBucket" \in DOMAIN self.children
    /\ ~Complete(self)
    /\ Len(built) = 1

\* The constructs that construct c of stack s refers to.
Refs(s, c) ==
    LET x == s.children[c]
    IN  CASE x.type = "Cluster" -> {x.vpc}
          [] x.type = "Role" ->
                {r[3] : r \in UNION {st.resources : st \in InlineStatements(s)}}
          [] x.type = "FargateTaskDefinition" -> {x.executionRole}
          [] x.type = "ApplicationLoadBalancedFargateService" ->
                {x.cluster, x.taskDefinition}
          [] OTHER -> {}

\* C10: objects are created in dependency order: the cluster only after the
\* network, the access role only after the asset store, the task spec only
\* after the access role, the service only after the cluster and the task
\* spec; no object exists before an object it references.
C10_DependencyOrder ==
    \A s \in AllStacks :
        LET D == DOMAIN s.children
        IN  /\ "EcsNextJsCluster" \in D => "NextJsVpc" \in D
            /\ "EcsTaskExecutionRole" \in D => "AssetsBucket" \in D
            /\ "EcsNextJsTaskDef" \in D => "EcsTaskExecutionRole" \in D
            /\ "EcsNextJsService" \in D =>
                  {"EcsNextJsCluster", "EcsNextJsTaskDef"} \subseteq D
            /\ \A c \in D : Refs(s, c) \subseteq D

C10_Witness ==
    /\ pc = "return"
    /\ "EcsNextJsService" \in DOMAIN self.children
    /\ Refs(self, "EcsNextJsService") = {"EcsNextJsCluster", "EcsNextJsTaskDef"}

\* The end-to-end scenario: azCount 2, cpu 512, memory 1024, desiredCount 2,
\* publicRead with object ACLs blocked.
EndToEndScenario(s) ==
    /\ s.children["NextJsVpc"].maxAzs = 2
    /\ s.children["EcsNextJsTaskDef"].cpu = 512
    /\ s.children["EcsNextJsTaskDef"].memoryLimitMiB = 1024
    /\ s.children["EcsNextJsService"].desiredCount = 2
    /\ s.children["AssetsBucket"].publicReadAccess
    /\ s.children["AssetsBucket"].blockPublicAccess = "BLOCK_ACLS"

Services(s) ==
    {c \in DOMAIN s.children :
        s.children[c].type \in {"FargateService",
                                "ApplicationLoadBalancedFargateService"}}

\* C12: every service that is produced is the load-balanced service (a load
\* balancer fronts it); whatever the inputs, no service is produced that
\* exposes the tasks directly, and every completed build has its service.
C12_AlwaysLoadBalanced ==
    /\ \A s \in AllStacks : \A c \in Services(s) :
          s.children[c].type = "ApplicationLoadBalancedFargateService"
    /\ \A i \in 1..Len(built) : Services(built[i]) # {}

C12_Witness ==
    \E i, j \in 1..Len(built) :
        /\ built[i].id # built[j].id
        /\ Services(built[i]) # {}
        /\ Services(built[j]) # {}

\* The fetch has failed: it rejected, or resolved with a non-ok response, or
\* with an ok response whose body does not parse.
FetchFailed ==
    \/ fetchPc \in {"catch", "settled"} /\ response = NoResponse
    \/ response # NoResponse /\ ~ResponseOk(response)
          /\ fetchPc \in {"catch", "settled"}
    \/ response # NoResponse /\ ResponseOk(response)
          /\ ~ParseJson(response.body).ok /\ fetchPc \in {"catch", "settled"}

\* C14: staticData starts as null and is non-null only once the fetch has
\* resolved with an ok response whose body parsed as JSON; a non-ok response,
\* a network error or a parse error leaves staticData null with the fallback
\* texts displayed, and is logged once the catch handler has run.
C14_StaticDataOnlyFromOkJson ==
    /\ fetchPc \in {"unmounted", "pending", "then1", "parsing", "then2", "catch"}
          => staticData = Null
    /\ staticData # Null =>
          /\ fetchPc = "settled"
          /\ ResponseOk(response)
          /\ ParseJson(response.body).ok
          /\ staticData = ParseJson(response.body).value
          /\ consoleErrors = <<>>
    /\ FetchFailed =>
          /\ staticData = Null
          /\ RenderedTitle(staticData) = "Loading...."
          /\ RenderedDescription(staticData) = "Fetching static data...."
          /\ fetchPc = "settled" =>
                consoleErrors = <<<<"Error fetching static data:", error>>>>

C14_Witness ==
    /\ fetchPc = "settled"
    /\ staticData # Null
    /\ RenderedTitle(staticData) = "NextJS on ECS"

====
